---- MODULE Spec2Model ----
(***************************************************************************)
(* Model of scripts/modular_build.py: the module registry, the dependency *)
(* resolver (resolve_dependencies / resolve_module), the library build    *)
(* (build_library), the test phase (build_tests) and main.                *)
(*                                                                         *)
(* The interpreter runs one thread; every step below is one step of that  *)
(* thread.  The file system (which declared files exist) and the external *)
(* processes (compiler, archiver, test executables) are the environment:  *)
(* their answers are chosen with \E where the code asks for them.         *)
(***************************************************************************)
EXTENDS Integers, Sequences, FiniteSets, TLC

VARIABLES
    modules,           \* self.modules: the registry the methods read
    entry,             \* the function the run enters: "main", or the method called directly
    args,              \* the parsed command line (argparse namespace)
    pc,                \* position of the single thread
    request,           \* module_names handed to resolve_dependencies
    todo,              \* module_names: the part of the list the for loop of line 160 has not reached
    stack,             \* active resolve_module frames, innermost last
    resolved,          \* the set local to resolve_dependencies
    resolved_modules,  \* what resolve_dependencies returned to its caller
    rstatus,           \* outcome of the resolver call
    round,             \* 1: first application, 2: re-application to its own result
    first_result,      \* the set returned by the first application
    raised,            \* the exception that left the entered function, if any
    exit_code,         \* <<>> while running, then <<value main returns>>
    success,           \* main's local of that name
    b_calls,           \* number of times build_library was entered
    b_order,           \* order in which the set `modules` of build_library iterates
    b_sources,         \* build_library: sources (existing declared source files)
    b_warned,          \* declared source files reported missing by collect_sources
    b_defines,         \* build_library: defines
    b_i,               \* index in sources of the next file to compile
    obj_files,         \* build_library: obj_files
    b_result,          \* "none", or how build_library ended: "True", "False", "raised"
    invocations,       \* every subprocess.run so far: command and result, in order
    archive,           \* the library file on disk: "untouched" by this run, or "written"
    report,            \* failure reports printed so far
    t_calls,           \* number of times build_tests was entered
    test_modules,      \* the module set main hands to build_tests
    test_files,        \* build_tests: test_files
    t_i,               \* index in test_files of the test the loop is at
    success_count,     \* build_tests: success_count
    total_count,       \* build_tests: total_count
    t_result           \* "none", or how build_tests ended: "True", "False", "raised"

resolver_vars == <<request, todo, stack, resolved, resolved_modules, rstatus,
                   round, first_result>>

build_vars == <<b_calls, b_order, b_sources, b_warned, b_defines, b_i, obj_files,
                b_result, archive>>

log_vars == <<invocations, report>>

test_vars == <<t_calls, test_modules, test_files, t_i, success_count, total_count, t_result>>

phase_vars == <<build_vars, test_vars, log_vars, success>>

vars == <<modules, entry, args, pc, resolver_vars, raised, exit_code, phase_vars>>

-----------------------------------------------------------------------------
(* Bounds of the model *)

\* largest number of names typed after --modules (or passed in a direct call)
MaxRequest == 2

\* largest set whose every list order is explored; list(set) of a larger set
\* is explored in declaration order and in its reverse
MaxPermuted == 2

\* depth of resolve_module frames at which the interpreter gives up with
\* RecursionError (CPython's recursion limit, scaled down)
MaxDepth == 6

-----------------------------------------------------------------------------
(* Paths: pathlib.Path values as records, so that .name and .stem are     *)
(* computed and not assumed.                                               *)

Path(dir, stem, suffix) == [dir |-> dir, stem |-> stem, suffix |-> suffix]

\* self.src_dir / src for a declared source 'modules/<stem>.cpp'
SrcPath(stem) == Path("src/modules", stem, ".cpp")

\* Path.name: the last component, directory dropped
PathName(p) == [stem |-> p.stem, suffix |-> p.suffix]

\* Path.stem: the last component without its suffix
PathStem(p) == p.stem

-----------------------------------------------------------------------------
(* The registry built in __init__ *)

ModuleAllRequired(deps, srcs, defs, req) ==
    [depends |-> deps, sources |-> srcs, defines |-> defs, required |-> TRUE]

\* one entry of self.modules; `required` is info.get('required', False)
Module(deps, srcs, defs, req) ==
    [depends |-> deps, sources |-> srcs, defines |-> defs, required |-> req]

ShippedNames ==
    {"core", "result", "string_utils", "math_utils", "containers", "file_utils",
     "time_utils", "functional", "debug", "memory", "test_framework"}

ShippedModules ==
    [n \in ShippedNames |->
        CASE n = "core"           -> Module(<<>>, <<>>, <<"BADCPPLIB_ENABLE_CORE">>, TRUE)
          [] n = "result"         -> Module(<<"core">>, <<>>, <<"BADCPPLIB_ENABLE_RESULT">>, FALSE)
          [] n = "string_utils"   -> Module(<<"core">>, <<SrcPath("string_utils")>>,
                                            <<"BADCPPLIB_ENABLE_STRING">>, FALSE)
          [] n = "math_utils"     -> Module(<<"core">>, <<SrcPath("math_utils")>>,
                                            <<"BADCPPLIB_ENABLE_MATH">>, FALSE)
          [] n = "containers"     -> Module(<<"core">>, <<>>, <<"BADCPPLIB_ENABLE_CONTAINERS">>, FALSE)
          [] n = "file_utils"     -> Module(<<"core", "result">>, <<>>,
                                            <<"BADCPPLIB_ENABLE_FILE_UTILS">>, FALSE)
          [] n = "time_utils"     -> Module(<<"core", "result">>, <<>>,
                                            <<"BADCPPLIB_ENABLE_TIME_UTILS">>, FALSE)
          [] n = "functional"     -> Module(<<"core">>, <<>>, <<"BADCPPLIB_ENABLE_FUNCTIONAL">>, FALSE)
          [] n = "debug"          -> Module(<<"core", "time_utils">>, <<>>,
                                            <<"BADCPPLIB_ENABLE_DEBUG">>, FALSE)
          [] n = "memory"         -> Module(<<"core">>, <<>>, <<"BADCPPLIB_ENABLE_MEMORY">>, FALSE)
          [] n = "test_framework" -> Module(<<"core">>, <<SrcPath("test_framework")>>,
                                            <<"BADCPPLIB_ENABLE_TEST">>, FALSE)]

\* Registries resolve_dependencies is also exercised on (self.modules is a
\* plain attribute): one whose module names an unregistered dependency, one
\* with a dependency cycle.  main itself always builds ShippedModules.
DanglingModules ==
    [n \in {"core", "plugin", "addon"} |->
        CASE n = "core"   -> Module(<<>>, <<>>, <<"ENABLE_CORE">>, TRUE)
          [] n = "plugin" -> Module(<<"core", "ghost">>, <<>>, <<"ENABLE_PLUGIN">>, FALSE)
          [] n = "addon"  -> Module(<<"core", "plugin">>, <<>>, <<"ENABLE_ADDON">>, FALSE)]

CyclicModules ==
    [n \in {"core", "ping", "pong"} |->
        CASE n = "core" -> Module(<<>>, <<>>, <<"ENABLE_CORE">>, TRUE)
          [] n = "ping" -> Module(<<"core", "pong">>, <<>>, <<"ENABLE_PING">>, FALSE)
          [] n = "pong" -> Module(<<"ping">>, <<>>, <<"ENABLE_PONG">>, FALSE)]

Registries == {ShippedModules, DanglingModules, CyclicModules}

Compilers == {"g++", "clang++", "cl"}

BuildTypes == {"debug", "release"}

-----------------------------------------------------------------------------
(* Command line *)

\* argparse defaults
DefaultArgs ==
    [modules |-> {"core"}, list_modules |-> FALSE, minimal |-> FALSE, full |-> FALSE,
     compiler |-> "g++", build_type |-> "release", test |-> FALSE, test_only |-> FALSE]

\* names typed after --modules in the explored command lines: some
\* registered ones, the keyword 'all' and an unregistered one
TypedNames(reg) ==
    (DOMAIN reg \cap {"debug", "string_utils", "math_utils", "test_framework"})
        \cup {"all", "bogus"}

SmallSubsets(S, lo, hi) == {R \in SUBSET S : Cardinality(R) >= lo /\ Cardinality(R) <= hi}

\* The command lines explored.  --modules takes at least one name (nargs='+').
\* Names are typed with --build-type at its default and at most one of
\* --test and --test-only; the presets (--minimal, --full, no --modules) are
\* explored with every compiler, build type and test option; --list-modules
\* with the other options at their defaults.
MainArgs(reg) ==
    {a \in [modules : SmallSubsets(TypedNames(reg), 1, MaxRequest) \cup {DefaultArgs.modules},
            list_modules : BOOLEAN, minimal : BOOLEAN, full : BOOLEAN,
            compiler : Compilers, build_type : BuildTypes,
            test : BOOLEAN, test_only : BOOLEAN] :
        /\ (a.minimal \/ a.full \/ a.list_modules) => a.modules = DefaultArgs.modules
        /\ ~(a.minimal /\ a.full)
        /\ a.list_modules => a = [DefaultArgs EXCEPT !.list_modules = TRUE]
        /\ a.modules # DefaultArgs.modules =>
              a.build_type = DefaultArgs.build_type /\ ~(a.test /\ a.test_only)}

\* Declaration order of the names (dicts keep insertion order); names that no
\* registry declares come last.
NameOrder ==
    <<"core", "result", "string_utils", "math_utils", "containers", "file_utils",
      "time_utils", "functional", "debug", "memory", "test_framework",
      "plugin", "addon", "ping", "pong", "all", "bogus">>

Index(n) == CHOOSE i \in 1..Len(NameOrder) : NameOrder[i] = n

Injective(S, n) == {s \in [1..n -> S] : \A i, j \in 1..n : s[i] = s[j] => i = j}

Sorted(S) ==
    LET pos(n) == Cardinality({m \in S : Index(m) < Index(n)}) + 1
    IN  [i \in 1..Cardinality(S) |-> CHOOSE n \in S : pos(n) = i]

Reverse(s) == [i \in 1..Len(s) |-> s[Len(s) + 1 - i]]

\* list(S) and iteration over a set S: the orders a set's elements can come in
ListOrders(S) ==
    IF Cardinality(S) <= MaxPermuted
    THEN Injective(S, Cardinality(S))
    ELSE {Sorted(S), Reverse(Sorted(S))}

\* main, lines 441-449
ModulesToBuild(a, reg) ==
    IF a.minimal THEN {"core", "result"}
    ELSE IF a.full \/ "all" \in a.modules THEN DOMAIN reg
    ELSE a.modules

-----------------------------------------------------------------------------
(* resolve_dependencies *)

MandatoryResult == "result"

\* line 158: the name resolve_module is first called on
Mandatory == "core"

DependsNone(name) == <<>>

DependsFirstOnly(name) ==
    IF modules[name].depends = <<>> THEN <<>> ELSE <<Head(modules[name].depends)>>

\* module['depends'] of a registered module
Depends(name) == modules[name].depends

Registered(name) == name \in DOMAIN modules

AddResolvedDepsOnly(res, name, depth) == IF depth > 1 THEN res \cup {name} ELSE res

\* resolved.add(name), reached at frame depth `depth`
AddResolved(res, name, depth) == res \cup {name}

Top == stack[Len(stack)]

Pop(s) == SubSeq(s, 1, Len(s) - 1)

\* An exception leaves the entered function.  In main the handler of
\* line 476 prints it and returns 1.
Raise(kind) ==
    /\ raised' = kind
    /\ pc' = "done"
    /\ exit_code' = IF entry = "main" THEN <<1>> ELSE exit_code

\* (an unregistered name is passed over instead of raising)
CallSkipUnknown(base, callee, next) ==
    IF callee \in resolved \/ callee \notin DOMAIN modules
    THEN /\ stack' = base
         /\ pc' = next
         /\ UNCHANGED <<rstatus, raised, exit_code>>
    ELSE /\ stack' = Append(base, [name |-> callee, next |-> 1])
         /\ pc' = next
         /\ UNCHANGED <<rstatus, raised, exit_code>>

\* resolve_module(callee) up to its first nested call: a resolved name
\* returns at once, an unregistered one raises ValueError, any other gets a
\* frame of its own.  `base` is the caller's stack, `next` the caller's
\* position when the call returns.
Call(base, callee, next) ==
    IF callee \in resolved
    THEN /\ stack' = base
         /\ pc' = next
         /\ UNCHANGED <<rstatus, raised, exit_code>>
    ELSE IF ~Registered(callee)
    THEN /\ stack' = <<>>
         /\ rstatus' = "ValueError"
         /\ Raise("ValueError: Unknown module")
    ELSE IF Len(base) >= MaxDepth
    THEN /\ stack' = <<>>
         /\ rstatus' = "RecursionError"
         /\ Raise("RecursionError")
    ELSE /\ stack' = Append(base, [name |-> callee, next |-> 1])
         /\ pc' = next
         /\ UNCHANGED <<rstatus, raised, exit_code>>

\* (the call of line 158 left out)
ResolveCoreSkipped ==
    /\ pc = "resolve_core"
    /\ pc' = "resolve_loop"
    /\ UNCHANGED <<phase_vars, modules, entry, args, resolver_vars, raised, exit_code>>

\* line 158: resolve_module('core')
ResolveCore ==
    /\ pc = "resolve_core"
    /\ Call(<<>>, Mandatory, "resolve_loop")
    /\ UNCHANGED <<phase_vars, modules, entry, args, request, todo, resolved, resolved_modules,
                   round, first_result>>

\* lines 160-161: the next element of module_names
ResolveNext ==
    /\ pc = "resolve_loop"
    /\ stack = <<>>
    /\ todo # <<>>
    /\ todo' = Tail(todo)
    /\ Call(<<>>, Head(todo), "resolve_loop")
    /\ UNCHANGED <<phase_vars, modules, entry, args, request, resolved, resolved_modules,
                   round, first_result>>

\* lines 152-153: the frame on top calls resolve_module on its next dependency
ResolveDep ==
    /\ pc = "resolve_loop"
    /\ stack # <<>>
    /\ Top.next <= Len(Depends(Top.name))
    /\ Call([stack EXCEPT ![Len(stack)].next = @ + 1], Depends(Top.name)[Top.next],
            "resolve_loop")
    /\ UNCHANGED <<phase_vars, modules, entry, args, request, todo, resolved, resolved_modules,
                   round, first_result>>

DepsDoneAtOnce(frame) == TRUE

\* lines 152-153: the loop over module['depends'] of the frame is over
DepsDone(frame) == frame.next > Len(Depends(frame.name))

\* line 155: all dependencies done, the frame adds its name and returns
ResolveAdd ==
    /\ pc = "resolve_loop"
    /\ stack # <<>>
    /\ DepsDone(Top)
    /\ resolved' = AddResolved(resolved, Top.name, Len(stack))
    /\ stack' = Pop(stack)
    /\ UNCHANGED <<phase_vars, modules, entry, args, pc, request, todo, resolved_modules, rstatus,
                   round, first_result, raised, exit_code>>

\* line 163: return resolved
ResolveReturn ==
    /\ pc = "resolve_loop"
    /\ stack = <<>>
    /\ todo = <<>>
    /\ resolved_modules' = resolved
    /\ rstatus' = "returned"
    /\ first_result' = IF round = 1 THEN resolved ELSE first_result
    /\ pc' = IF entry = "main" THEN "after_resolve" ELSE "returned"
    /\ UNCHANGED <<phase_vars, modules, entry, args, request, todo, stack, resolved, round,
                   raised, exit_code>>

\* The caller applies resolve_dependencies to list(result) of the first call.
ResolveAgain ==
    /\ entry = "resolve_dependencies"
    /\ pc = "returned"
    /\ round = 1
    /\ round' = 2
    /\ request' = resolved_modules
    /\ todo' \in ListOrders(resolved_modules)
    /\ resolved' = {}
    /\ resolved_modules' = {}
    /\ rstatus' = "running"
    /\ pc' = "resolve_core"
    /\ UNCHANGED <<phase_vars, modules, entry, args, stack, first_result, raised, exit_code>>

-----------------------------------------------------------------------------
(* main *)

\* lines 437-453: --list-modules returns 0; otherwise the request is formed
\* and resolve_dependencies(list(modules_to_build)) is entered
MainStart ==
    /\ entry = "main"
    /\ pc = "main"
    /\ IF args.list_modules
       THEN /\ pc' = "done"
            /\ exit_code' = <<0>>
            /\ UNCHANGED <<request, todo, rstatus>>
       ELSE /\ request' = ModulesToBuild(args, modules)
            /\ todo' \in ListOrders(ModulesToBuild(args, modules))
            /\ rstatus' = "running"
            /\ pc' = "resolve_core"
            /\ UNCHANGED exit_code
    /\ UNCHANGED <<phase_vars, modules, entry, args, stack, resolved, resolved_modules,
                   round, first_result, raised>>

-----------------------------------------------------------------------------
(* External processes and the file system *)

\* What subprocess.run(cmd, capture_output=True, text=True) can give: a
\* CompletedProcess with returncode and stderr, or OSError when the program
\* cannot be started (launched = FALSE).
RunResults ==
    {[launched |-> TRUE, returncode |-> 0, stderr |-> ""],
     [launched |-> TRUE, returncode |-> 1, stderr |-> "diagnostic"],
     [launched |-> FALSE, returncode |-> 0, stderr |-> ""]}

\* self.compilers
CompilerTable ==
    [c \in Compilers |->
        IF c = "cl"
        THEN [command |-> "cl", flags |-> <<"/std:c++17", "/W4">>]
        ELSE [command |-> c, flags |-> <<"-std=c++17", "-Wall", "-Wextra", "-Wpedantic">>]]

KnownCompiler(compiler) == compiler \in DOMAIN CompilerTable

\* get_compiler_command for a known compiler: the command and its flags
GetCompilerCommand(compiler, build_type) ==
    <<CompilerTable[compiler].command>> \o CompilerTable[compiler].flags \o
    (IF build_type = "debug"
     THEN (IF compiler = "cl" THEN <<"/Od", "/Zi", "/MDd">> ELSE <<"-g", "-O0">>)
     ELSE IF build_type = "release"
     THEN (IF compiler = "cl" THEN <<"/O2", "/MD", "/DNDEBUG">> ELSE <<"-O2", "-DNDEBUG">>)
     ELSE <<>>)

RECURSIVE Flatten(_)
Flatten(ss) == IF ss = <<>> THEN <<>> ELSE Head(ss) \o Flatten(Tail(ss))

\* collect_sources over the modules in iteration order `order`, `present`
\* being the declared files that exist: (sources, files warned about)
DeclaredSources(mods) == UNION {{modules[m].sources[k] : k \in DOMAIN modules[m].sources} : m \in mods}

CollectSourcesDeclared(order, present) ==
    Flatten([i \in DOMAIN order |-> modules[order[i]].sources])

CollectSources(order, present) ==
    Flatten([i \in DOMAIN order |->
                SelectSeq(modules[order[i]].sources, LAMBDA p : p \in present)])

\* collect_defines
CollectDefines(order) == Flatten([i \in DOMAIN order |-> modules[order[i]].defines])

\* f'/D{define}' or f'-D{define}', f'/I{dir}' or f'-I{dir}'
DefineFlag(compiler, define) == [opt |-> IF compiler = "cl" THEN "/D" ELSE "-D", value |-> define]

IncludeFlag(compiler) == [opt |-> IF compiler = "cl" THEN "/I" ELSE "-I", value |-> "include"]

DefineFlags(compiler, defines) == [i \in DOMAIN defines |-> DefineFlag(compiler, defines[i])]

\* self.build_dir / f"{src.stem}.obj" or ".o"
ObjFile(compiler, src) ==
    Path("build_cmake", PathStem(src), IF compiler = "cl" THEN ".obj" ELSE ".o")

\* self.build_dir / "libbadcpplib.lib" or ".a"
OutputFile(compiler) ==
    Path("build_cmake", "libbadcpplib", IF compiler = "cl" THEN ".lib" ELSE ".a")

\* An argument list, its arguments grouped by role: `base` the program and
\* its flags, `inputs` the positional file arguments in order, `outputs` the
\* output options.
Command(base, defines, includes, mode, inputs, outputs) ==
    [base |-> base, defines |-> defines, includes |-> includes, mode |-> mode,
     inputs |-> inputs, outputs |-> outputs]

\* The compile command of one source.  For cl, obj_cmd is a copy of cmd,
\* which already holds every source (line 261), extended by /Fo, /c and the
\* source; for the others src_cmd is built afresh.
CompileCommand(compiler, build_type, defines, sources, src) ==
    IF compiler = "cl"
    THEN Command(GetCompilerCommand(compiler, build_type), DefineFlags(compiler, defines),
                 <<IncludeFlag(compiler)>>, <<"/c">>, sources \o <<src>>,
                 <<[opt |-> "/Fo", path |-> ObjFile(compiler, src)]>>)
    ELSE Command(GetCompilerCommand(compiler, build_type), DefineFlags(compiler, defines),
                 <<IncludeFlag(compiler)>>, <<"-c">>, <<src>>,
                 <<[opt |-> "-o", path |-> ObjFile(compiler, src)]>>)

ArchiveCommandLastOnly(compiler, objs) ==
    Command(<<"ar", "rcs">>, <<>>, <<>>, <<>>, <<objs[Len(objs)]>>,
            <<[opt |-> "", path |-> OutputFile(compiler)]>>)

\* lib_cmd
ArchiveCommand(compiler, objs) ==
    IF compiler = "cl"
    THEN Command(<<"lib">>, <<>>, <<>>, <<>>, objs,
                 <<[opt |-> "/OUT:", path |-> OutputFile(compiler)]>>)
    ELSE Command(<<"ar", "rcs">>, <<>>, <<>>, <<>>, objs,
                 <<[opt |-> "", path |-> OutputFile(compiler)]>>)

Invocation(kind, cmd, res) == [kind |-> kind, cmd |-> cmd, result |-> res]

-----------------------------------------------------------------------------
(* build_library *)

NoSourcesNever(sources) == FALSE

\* line 240: if not sources
NoSources(sources) == sources = <<>>

CompileFailedNever(res) == FALSE

\* lines 276 and 304: if result.returncode != 0
CompileFailed(res) == res.returncode # 0

FailureReportNoStderr(title, src, res) ==
    [title |-> title, file |-> <<PathName(src)>>, module |-> <<>>, stderr |-> ""]

\* lines 277-278 and 305-306: the two print calls give the title with
\* src.name, then result.stderr; no module name is printed
FailureReport(title, src, res) ==
    [title |-> title, file |-> <<PathName(src)>>, module |-> <<>>, stderr |-> res.stderr]

\* build_library returns `value` to main (line 465)
BuildReturns(value) ==
    /\ b_result' = (IF value THEN "True" ELSE "False")
    /\ success' = (IF entry = "main" THEN value ELSE success)
    /\ pc' = (IF entry = "main" THEN "after_build" ELSE "done")
    /\ UNCHANGED <<raised, exit_code>>

BuildRaises(kind) ==
    /\ b_result' = "raised"
    /\ UNCHANGED success
    /\ Raise(kind)

\* lines 229-264: build_library(resolved_modules, ...) is called, by main or
\* directly; the sources and defines are collected; without sources it
\* returns True at once
BuildLibrary ==
    /\ \/ entry = "main" /\ ~args.test_only
       \/ entry = "build_library"
    /\ pc = "after_resolve"
    /\ b_calls' = b_calls + 1
    /\ \E order \in ListOrders(resolved_modules),
          present \in SUBSET DeclaredSources(resolved_modules) :
        /\ b_order' = order
        /\ b_sources' = CollectSources(order, present)
        /\ b_warned' = DeclaredSources(resolved_modules) \ present
        /\ b_defines' = CollectDefines(order)
        /\ IF NoSources(CollectSources(order, present))
           THEN BuildReturns(TRUE)
           ELSE IF ~KnownCompiler(args.compiler)
           THEN BuildRaises("ValueError: Unknown compiler")
           ELSE /\ pc' = "build_compile"
                /\ UNCHANGED <<b_result, success, raised, exit_code>>
    /\ b_i' = 1
    /\ obj_files' = <<>>
    /\ UNCHANGED <<modules, entry, args, resolver_vars, archive, log_vars, test_vars>>

\* lines 269-280 and 287-308: one turn of the loop over sources
BuildCompile ==
    /\ pc = "build_compile"
    /\ b_i <= Len(b_sources)
    /\ \E res \in RunResults :
        LET src == b_sources[b_i]
            cmd == CompileCommand(args.compiler, args.build_type, b_defines, b_sources, src)
        IN  /\ invocations' = Append(invocations, Invocation("compile", cmd, res))
            /\ IF ~res.launched
               THEN /\ BuildRaises("OSError")
                    /\ UNCHANGED <<report, obj_files, b_i>>
               ELSE IF CompileFailed(res)
               THEN /\ report' = Append(report, FailureReport("Compilation error", src, res))
                    /\ BuildReturns(FALSE)
                    /\ UNCHANGED <<obj_files, b_i>>
               ELSE /\ obj_files' = Append(obj_files, ObjFile(args.compiler, src))
                    /\ b_i' = b_i + 1
                    /\ UNCHANGED <<report, b_result, success, pc, raised, exit_code>>
    /\ UNCHANGED <<modules, entry, args, resolver_vars, b_calls, b_order, b_sources,
                   b_warned, b_defines, archive, test_vars>>

ArchiveReportAsCompile(res) ==
    [title |-> "Compilation error", file |-> <<>>, module |-> <<>>, stderr |-> res.stderr]

\* lines 316-317: the two print calls give the title, then result.stderr
ArchiveReport(res) ==
    [title |-> "Library creation error", file |-> <<>>, module |-> <<>>, stderr |-> res.stderr]

\* lines 283, 311-321: the archiver runs on the objects
(* A failing archiver may or may not have touched the output file. *)
BuildArchive ==
    /\ pc = "build_compile"
    /\ b_i > Len(b_sources)
    /\ \E res \in RunResults :
        /\ invocations' = Append(invocations,
               Invocation("archive", ArchiveCommand(args.compiler, obj_files), res))
        /\ IF ~res.launched
           THEN /\ BuildRaises("OSError")
                /\ UNCHANGED <<report, archive>>
           ELSE IF res.returncode # 0
           THEN /\ report' = Append(report, ArchiveReport(res))
                /\ archive' \in {archive, "written"}
                /\ BuildReturns(FALSE)
           ELSE /\ archive' = "written"
                /\ BuildReturns(TRUE)
                /\ UNCHANGED report
    /\ UNCHANGED <<modules, entry, args, resolver_vars, b_calls, b_order, b_sources,
                   b_warned, b_defines, b_i, obj_files, test_vars>>

-----------------------------------------------------------------------------
(* build_tests *)

\* self.tests_dir / "basic_test.cpp"; the stem of a test file is the tuple of
\* the pieces its name is put together from
BasicTest == Path("tests", <<"basic_test">>, ".cpp")

\* self.tests_dir / "modules" / f"test_{module_name}.cpp"; the stem stands
\* for the formatted string
ModuleTest(module_name) == Path("tests/modules", <<"test_", module_name>>, ".cpp")

\* Modules for which a test file may exist on disk in the explored runs
TestedModules == {"core"}

\* self.build_dir / exe_name
TestExe(compiler, test_file) ==
    Path("build_cmake", PathStem(test_file), IF compiler = "cl" THEN ".exe" ELSE "")

\* The compile command of one test, without the defines and the module
\* sources it repeats (lines 355-371): the program and flags, the include
\* flag, the test file and the executable.
TestCommand(compiler, build_type, test_file) ==
    Command(GetCompilerCommand(compiler, build_type), <<>>, <<IncludeFlag(compiler)>>, <<>>,
            <<test_file>>,
            <<[opt |-> IF compiler = "cl" THEN "/Fe" ELSE "-o",
               path |-> TestExe(compiler, test_file)]>>)

\* [str(output_file)]
RunCommand(exe) == Command(<<>>, <<>>, <<>>, <<>>, <<exe>>, <<>>)

TestsReturnOverwrites(value) ==
    /\ t_result' = (IF value THEN "True" ELSE "False")
    /\ success' = value
    /\ pc' = (IF entry = "main" THEN "after_tests" ELSE "done")
    /\ UNCHANGED <<raised, exit_code>>

\* build_tests returns `value` to main (lines 471-472)
TestsReturn(value) ==
    /\ t_result' = (IF value THEN "True" ELSE "False")
    /\ success' = (IF entry = "main" THEN success /\ value ELSE success)
    /\ pc' = (IF entry = "main" THEN "after_tests" ELSE "done")
    /\ UNCHANGED <<raised, exit_code>>

TestsRaise(kind) ==
    /\ t_result' = "raised"
    /\ UNCHANGED success
    /\ Raise(kind)

TestsRequestedAfterSuccess(a) == (a.test \/ a.test_only) /\ success

\* line 468: if args.test or args.test_only
TestsRequested(a) == a.test \/ a.test_only

NoTestsNever(files) == FALSE

\* line 341: if not test_files
NoTests(files) == files = <<>>

TestModulesOnlyFramework == {"test_framework"}

\* line 470: the module set build_tests is given
TestModules ==
    IF entry = "main" THEN resolved_modules \cup {"test_framework"} ELSE resolved_modules

\* lines 468-346: build_tests is called, by main on
\* resolved_modules | {'test_framework'} or directly; the test files that
\* exist are listed, the basic test first, then the module tests in the
\* iteration order of the set; with none it returns True at once
BuildTests ==
    /\ \/ /\ entry = "main"
          /\ pc = "after_build" \/ (pc = "after_resolve" /\ args.test_only)
          /\ TestsRequested(args)
       \/ entry = "build_tests" /\ pc = "after_resolve"
    /\ t_calls' = t_calls + 1
    /\ test_modules' = TestModules
    /\ \E basic \in SUBSET {BasicTest},
          tested \in SUBSET (TestModules \cap TestedModules) :
       \E order \in ListOrders(tested) :
        LET files == (IF basic = {} THEN <<>> ELSE <<BasicTest>>) \o
                     [i \in DOMAIN order |-> ModuleTest(order[i])]
        IN  /\ test_files' = files
            /\ total_count' = Len(files)
            /\ IF NoTests(files)
               THEN TestsReturn(TRUE)
               ELSE /\ pc' = "test_compile"
                    /\ UNCHANGED <<t_result, success, raised, exit_code>>
    /\ success_count' = 0
    /\ t_i' = 1
    /\ UNCHANGED <<modules, entry, args, resolver_vars, build_vars, log_vars>>

TestCompileFailedNever(res) == FALSE

\* line 384: if result.returncode != 0
TestCompileFailed(res) == res.returncode # 0

NextTestNone(i) == Len(test_files) + 1

\* lines 348 and 387: the loop goes on with the test after test i, whatever
\* became of test i
NextTest(i) == i + 1

\* lines 348-387: the test is compiled; a failed compilation moves on to the
\* next test
TestCompile ==
    /\ pc = "test_compile"
    /\ t_i <= Len(test_files)
    /\ IF ~KnownCompiler(args.compiler)
       THEN /\ TestsRaise("ValueError: Unknown compiler")
            /\ UNCHANGED <<invocations, report, t_i>>
       ELSE \E res \in RunResults :
            /\ invocations' = Append(invocations,
                   Invocation("test_compile",
                              TestCommand(args.compiler, args.build_type, test_files[t_i]), res))
            /\ IF ~res.launched
               THEN /\ TestsRaise("OSError")
                    /\ UNCHANGED <<report, t_i>>
               ELSE IF TestCompileFailed(res)
               THEN /\ report' = Append(report,
                           FailureReport("Test compilation error", test_files[t_i], res))
                    /\ t_i' = NextTest(t_i)
                    /\ UNCHANGED <<pc, t_result, success, raised, exit_code>>
               ELSE /\ pc' = "test_run"
                    /\ UNCHANGED <<report, t_i, t_result, success, raised, exit_code>>
    /\ UNCHANGED <<modules, entry, args, resolver_vars, build_vars, t_calls, test_modules,
                   test_files, success_count, total_count>>

PassedAlways(res) == TRUE

\* line 393: if result.returncode == 0
Passed(res) == res.returncode = 0

\* lines 389-401: the executable runs; exit status 0 counts as passed
TestRun ==
    /\ pc = "test_run"
    /\ \E res \in RunResults :
        /\ invocations' = Append(invocations,
               Invocation("test_run", RunCommand(TestExe(args.compiler, test_files[t_i])), res))
        /\ IF ~res.launched
           THEN /\ TestsRaise("OSError")
                /\ UNCHANGED <<report, t_i, success_count>>
           ELSE /\ IF Passed(res)
                   THEN /\ success_count' = success_count + 1
                        /\ UNCHANGED report
                   ELSE /\ report' = Append(report, FailureReport("FAILED", test_files[t_i], res))
                        /\ UNCHANGED success_count
                /\ t_i' = NextTest(t_i)
                /\ pc' = "test_compile"
                /\ UNCHANGED <<t_result, success, raised, exit_code>>
    /\ UNCHANGED <<modules, entry, args, resolver_vars, build_vars, t_calls, test_modules,
                   test_files, total_count>>

\* lines 403-411: after the last test
TestsFinish ==
    /\ pc = "test_compile"
    /\ t_i > Len(test_files)
    /\ TestsReturn(success_count = total_count)
    /\ UNCHANGED <<modules, entry, args, resolver_vars, build_vars, log_vars, t_calls,
                   test_modules, test_files, t_i, success_count, total_count>>

-----------------------------------------------------------------------------
(* main, after the phases *)

\* line 474: return 0 if success else 1
MainReturn ==
    /\ entry = "main"
    /\ \/ pc = "after_tests"
       \/ pc = "after_build" /\ ~TestsRequested(args)
    /\ pc' = "done"
    /\ exit_code' = (IF success THEN <<0>> ELSE <<1>>)
    /\ UNCHANGED <<modules, entry, args, resolver_vars, raised, phase_vars>>

-----------------------------------------------------------------------------
(* Initial states *)

InitCommon(reg) ==
    /\ modules = reg
    /\ stack = <<>>
    /\ resolved = {}
    /\ round = 1
    /\ first_result = {}
    /\ raised = "none"
    /\ exit_code = <<>>
    /\ success = TRUE
    /\ b_calls = 0
    /\ b_order = <<>>
    /\ b_sources = <<>>
    /\ b_warned = {}
    /\ b_defines = <<>>
    /\ b_i = 1
    /\ obj_files = <<>>
    /\ b_result = "none"
    /\ invocations = <<>>
    /\ archive = "untouched"
    /\ report = <<>>
    /\ t_calls = 0
    /\ test_modules = {}
    /\ test_files = <<>>
    /\ t_i = 1
    /\ success_count = 0
    /\ total_count = 0
    /\ t_result = "none"

\* python modular_build.py <args>
InitMain(reg) ==
    /\ InitCommon(reg)
    /\ entry = "main"
    /\ args \in MainArgs(reg)
    /\ pc = "main"
    /\ request = {}
    /\ todo = <<>>
    /\ rstatus = "none"
    /\ resolved_modules = {}

\* ModularBuildSystem().resolve_dependencies(names), called directly
InitResolve(reg) ==
    /\ InitCommon(reg)
    /\ entry = "resolve_dependencies"
    /\ args = DefaultArgs
    /\ pc = "resolve_core"
    /\ request \in SmallSubsets(DOMAIN reg \cup {"bogus"}, 0, MaxRequest)
    /\ todo \in ListOrders(request)
    /\ rstatus = "running"
    /\ resolved_modules = {}

\* a compiler id self.compilers does not hold
UnknownCompiler == "tcc"

\* The module sets build_library and build_tests are called on directly:
\* what resolve_dependencies returns for the empty request, for one module
\* with a source and for two of them
DirectModuleSets ==
    {{"core"}, {"core", "string_utils"}, {"core", "string_utils", "math_utils"}}

\* ModularBuildSystem().build_library(mods, compiler, build_type) or
\* .build_tests(mods, compiler, build_type), called directly: the compiler
\* id is any string
InitDirect(reg, method) ==
    /\ InitCommon(reg)
    /\ entry = method
    /\ \E c \in Compilers \cup {UnknownCompiler}, bt \in BuildTypes :
          args = [DefaultArgs EXCEPT !.compiler = c, !.build_type = bt]
    /\ pc = "after_resolve"
    /\ request = {}
    /\ todo = <<>>
    /\ rstatus = "none"
    /\ resolved_modules \in DirectModuleSets

Init == InitMain(ShippedModules) \/ InitResolve(ShippedModules)

InitCalls ==
    \/ Init
    \/ InitDirect(ShippedModules, "build_library")
    \/ InitDirect(ShippedModules, "build_tests")

InitRegistries == InitMain(ShippedModules) \/ \E reg \in Registries : InitResolve(reg)

Next ==
    \/ MainStart
    \/ ResolveCore
    \/ ResolveNext
    \/ ResolveDep
    \/ ResolveAdd
    \/ ResolveReturn
    \/ ResolveAgain
    \/ BuildLibrary
    \/ BuildCompile
    \/ BuildArchive
    \/ BuildTests
    \/ TestCompile
    \/ TestRun
    \/ TestsFinish
    \/ MainReturn

Spec == Init /\ [][Next]_vars

SpecRegistries == InitRegistries /\ [][Next]_vars

SpecCalls == InitCalls /\ [][Next]_vars

-----------------------------------------------------------------------------
(* Properties *)

Range(f) == {f[i] : i \in DOMAIN f}

\* the names a registered module lists as dependencies (none for a name the
\* registry does not hold)
DepSet(m) == IF m \in DOMAIN modules THEN Range(modules[m].depends) ELSE {}

RECURSIVE Reach(_)
\* every name reachable from S through 'depends' lists, S included
Reach(S) ==
    LET T == S \cup UNION {DepSet(m) : m \in S}
    IN  IF T = S THEN S ELSE Reach(T)

\* some module reachable from S depends, directly or not, on itself
CycleReachable(S) == \E m \in Reach(S) : m \in Reach(DepSet(m))

\* some name reachable from S is not registered
UnknownReachable(S) == \E n \in Reach(S) : n \notin DOMAIN modules

Returned == rstatus = "returned"

BuildInvocations == {i \in DOMAIN invocations : invocations[i].kind \in {"compile", "archive"}}

CompileInvocations == {i \in DOMAIN invocations : invocations[i].kind = "compile"}

ArchiveInvocations == {i \in DOMAIN invocations : invocations[i].kind = "archive"}

\* the compiler could not be started or exited non-zero
Failed(res) == ~res.launched \/ res.returncode # 0

\* the source a compile invocation produces the object of: its last
\* positional argument
CompiledSource(i) == invocations[i].cmd.inputs[Len(invocations[i].cmd.inputs)]

DeclaringModules(src) == {m \in DOMAIN modules : src \in Range(modules[m].sources)}

\* C1: whenever resolve_dependencies returns a set, every dependency of every
\* member of the set is in the set.
C1_DependencyClosed ==
    Returned => \A m \in resolved_modules : DepSet(m) \subseteq resolved_modules

C1_Witness ==
    /\ Returned
    /\ request = {"debug"}
    /\ Cardinality(resolved_modules) = 4

\* C2: whenever resolve_dependencies returns a set, 'core' is in it, whether
\* or not the request names it.
C2_CoreAlwaysIncluded == Returned => "core" \in resolved_modules

C2_Witness ==
    /\ Returned
    /\ request # {}
    /\ "core" \notin request
    /\ "core" \in resolved_modules

\* C3: resolve_dependencies([]) returns exactly {'core'}.
C3_EmptyRequest == (Returned /\ request = {}) => resolved_modules = {"core"}

C3_Witness ==
    /\ Returned
    /\ request = {}
    /\ resolved_modules = {"core"}

\* C4: resolve_dependencies applied to the result of resolve_dependencies(R)
\* returns a set equal to that result.
C4_Idempotent == (Returned /\ round = 2) => resolved_modules = first_result

C4_Witness ==
    /\ Returned
    /\ round = 2
    /\ Cardinality(first_result) >= 4
    /\ resolved_modules = first_result

\* C5: the returned set is exactly the set of names reachable from the
\* request and 'core' through 'depends' lists, nothing more; on the shipped
\* registry {'core'} gives {'core'} and {'debug'} gives
\* {'core','result','time_utils','debug'}.
C5_LeastClosure ==
    Returned =>
        /\ resolved_modules = Reach(request \cup {"core"})
        /\ (modules = ShippedModules /\ request = {"core"}) => resolved_modules = {"core"}
        /\ (modules = ShippedModules /\ request = {"debug"}) =>
               resolved_modules = {"core", "result", "time_utils", "debug"}

C5_Witness ==
    /\ Returned
    /\ modules = ShippedModules
    /\ request = {"debug"}
    /\ resolved_modules = {"core", "result", "time_utils", "debug"}
    /\ round = 1

\* C6: on a registry without cycles, when a requested name or a name reached
\* through a 'depends' list is not registered, no set is returned,
\* build_library and build_tests are never entered, the run never ends
\* with exit code 0, and it ends with the unknown-module ValueError (exit
\* code 1 from main).
C6_UnknownModuleAborts ==
    (UnknownReachable(request \cup {"core"}) /\ ~CycleReachable(request \cup {"core"})) =>
        /\ rstatus \in {"running", "ValueError"}
        /\ resolved_modules = {}
        /\ b_calls = 0 /\ t_calls = 0 /\ invocations = <<>>
        /\ exit_code # <<0>>
        /\ pc \in {"resolve_core", "resolve_loop", "done"}
        /\ pc = "done" =>
              /\ rstatus = "ValueError"
              /\ raised = "ValueError: Unknown module"
              /\ entry = "main" => exit_code = <<1>>

\* a typed name is unregistered: main ends with exit code 1 after part of the
\* request was resolved
C6_Witness ==
    /\ entry = "main"
    /\ pc = "done"
    /\ "bogus" \in request
    /\ resolved # {}
    /\ raised = "ValueError: Unknown module"
    /\ exit_code = <<1>>

\* a registered module lists an unregistered dependency
C6_WitnessDependency ==
    /\ pc = "done"
    /\ request = {"addon"}
    /\ "ghost" \in Reach(request)
    /\ rstatus = "ValueError"

\* C7: when a dependency cycle is reachable from the request (and every
\* reachable name is registered), the resolver returns no set and ends with
\* a cyclic-dependency error of its own.
C7_CycleReported ==
    (/\ CycleReachable(request \cup {"core"})
     /\ ~UnknownReachable(request \cup {"core"})
     /\ rstatus \notin {"none", "running"}) =>
        /\ rstatus = "CyclicDependencyError"
        /\ resolved_modules = {}

\* C8: when build_library collects no source file (in particular when the
\* resolved modules declare none), it returns True and neither the compiler
\* nor the archiver is invoked.
C8_HeaderOnlyBuildSucceeds ==
    (b_calls > 0 /\ (DeclaredSources(resolved_modules) = {} \/ b_sources = <<>>)) =>
        /\ b_sources = <<>>
        /\ b_result = "True"
        /\ BuildInvocations = {}
        /\ archive = "untouched"

C8_Witness ==
    /\ b_calls = 1
    /\ pc = "after_build"
    /\ DeclaredSources(resolved_modules) = {}
    /\ Cardinality(resolved_modules) >= 3
    /\ b_result = "True"

\* C9: once a compiler invocation of build_library has failed (could not be
\* started, or exited non-zero), build_library has ended in failure (False,
\* or the OSError), the archiver has not been invoked and the library file
\* is untouched.
C9_NoArchiveAfterCompileFailure ==
    (\E i \in CompileInvocations : Failed(invocations[i].result)) =>
        /\ b_result \in {"False", "raised"}
        /\ ArchiveInvocations = {}
        /\ archive = "untouched"
        /\ b_result = "False" => ~success
        /\ exit_code # <<0>>

\* the second of two sources fails under cl
C9_Witness ==
    /\ args.compiler = "cl"
    /\ Len(b_sources) >= 2
    /\ Cardinality(CompileInvocations) = 2
    /\ ~Failed(invocations[1].result)
    /\ invocations[2].result.returncode # 0
    /\ b_result = "False"

\* the first of several sources cannot be compiled because g++ does not start
C9_WitnessLaunch ==
    /\ args.compiler = "g++"
    /\ Len(b_sources) >= 2
    /\ Cardinality(CompileInvocations) = 1
    /\ ~invocations[1].result.launched
    /\ b_result = "raised"

\* a compile invocation that ran and exited non-zero
ExitedNonZero(i) ==
    /\ i \in CompileInvocations
    /\ invocations[i].result.launched
    /\ invocations[i].result.returncode # 0

-----------------------------------------------------------------------------
(* build_library: which step failed *)

\* a build invocation that ran and exited non-zero
StepExitedNonZero(i) ==
    /\ i \in BuildInvocations
    /\ invocations[i].result.launched
    /\ invocations[i].result.returncode # 0

\* the reports build_library printed
BuildReports ==
    {k \in DOMAIN report : report[k].title \in {"Compilation error", "Library creation error"}}

\* how build_library ends when a per-source compilation fails (lines 279 and
\* 307 return False; an OSError of subprocess.run leaves the method)
CompileFailureOutcomes == {"False", "raised"}

\* C11 as stated: the result build_library hands its caller tells a failure
\* of the archive step from a failure of a per-source compilation: an
\* archive failure never ends in a result a compile failure ends in.
C11_ResultTellsFailingStep ==
    \A i \in ArchiveInvocations :
        Failed(invocations[i].result) => b_result \notin CompileFailureOutcomes

\* C11 as amended: build_library returns False both when a compilation and
\* when the archiver exits non-zero; the two are told apart only by the one
\* report it prints, titled "Compilation error" with the file's name for a
\* compilation and "Library creation error" with no file for the archiver.
\* When either program cannot be started the OSError leaves build_library
\* and nothing is printed.
C11_ReportTellsFailingStep ==
    \A i \in BuildInvocations :
        /\ StepExitedNonZero(i) =>
            /\ b_result = "False"
            /\ Cardinality(BuildReports) = 1
            /\ \A k \in BuildReports :
                IF invocations[i].kind = "archive"
                THEN report[k].title = "Library creation error" /\ report[k].file = <<>>
                ELSE report[k].title = "Compilation error" /\ report[k].file # <<>>
        /\ ~invocations[i].result.launched =>
            /\ b_result = "raised"
            /\ BuildReports = {}

\* every source compiled, then the archiver exited non-zero
C11_Witness ==
    /\ b_result = "False"
    /\ Len(b_sources) = 2
    /\ \E i \in ArchiveInvocations : StepExitedNonZero(i)
    /\ \E k \in BuildReports : report[k].title = "Library creation error"

-----------------------------------------------------------------------------
(* build_tests *)

TestCompileInvocations == {i \in DOMAIN invocations : invocations[i].kind = "test_compile"}

TestRunInvocations == {i \in DOMAIN invocations : invocations[i].kind = "test_run"}

\* the compile invocations of discovered test k
CompilesOf(k) == {i \in TestCompileInvocations : invocations[i].cmd.inputs = <<test_files[k]>>}

\* the runs of the executable of discovered test k
RunsOf(k) ==
    {i \in TestRunInvocations :
        invocations[i].cmd.inputs = <<TestExe(args.compiler, test_files[k])>>}

\* build_tests returned (it did not end with an exception)
TestsReturned == t_result \in {"True", "False"}

C12_WitnessRun ==
    /\ TestsReturned
    /\ Len(test_files) = 2
    /\ \E i \in RunsOf(1) : invocations[i].result.returncode # 0
    /\ CompilesOf(2) # {}

\* the discovered tests whose executable was built, ran and exited with 0
PassedTests ==
    {k \in DOMAIN test_files :
        /\ \E i \in CompilesOf(k) : ~Failed(invocations[i].result)
        /\ \E i \in RunsOf(k) : ~Failed(invocations[i].result)}

\* the value build_tests returned, as the tuple of its components
ReturnedByTests ==
    IF t_result = "True" THEN <<TRUE>> ELSE IF t_result = "False" THEN <<FALSE>> ELSE <<>>

\* the test files a per-test failure report was printed for
ReportedFailing ==
    {report[k].file : k \in {j \in DOMAIN report :
                                 report[j].title \in {"Test compilation error", "FAILED"}}}

\* C13 as stated: build_tests returns three components: the number of
\* discovered tests that compiled and exited with 0, the number of discovered
\* tests, and the identifiers of the remaining discovered tests.
C13_ReturnsPassedTotalFailing ==
    TestsReturned =>
        /\ Len(ReturnedByTests) = 3
        /\ ReturnedByTests[1] = Cardinality(PassedTests)
        /\ ReturnedByTests[2] = Len(test_files)
        /\ ReturnedByTests[3] = {PathName(test_files[k]) : k \in DOMAIN test_files \ PassedTests}

\* C13 as amended: build_tests returns one boolean, True exactly when
\* success_count equals total_count; success_count (printed with
\* total_count) is the number of discovered tests that compiled and exited
\* with 0, total_count the number of discovered tests; the failing tests are
\* not listed in the result, each is reported as it fails.
C13_CountsAndBoolean ==
    TestsReturned =>
        /\ success_count = Cardinality(PassedTests)
        /\ total_count = Len(test_files)
        /\ ReturnedByTests = <<success_count = total_count>>
        /\ ReportedFailing =
               {<<PathName(test_files[k])>> : k \in DOMAIN test_files \ PassedTests}

\* one of two tests passed
C13_Witness ==
    /\ TestsReturned
    /\ Len(test_files) = 2
    /\ success_count = 1
    /\ Cardinality(PassedTests) = 1
    /\ t_result = "False"

-----------------------------------------------------------------------------
(* main: the exit code *)

\* C14: main returns 0 only if resolution returned a set, every phase it
\* invoked returned True and no external process of the run failed; after a
\* resolve error, a failed compilation, a failed archive step or a failing
\* test, main returns 1.
C14_ExitZeroOnlyIfAllSucceeded ==
    /\ (entry = "main" /\ pc = "done") => exit_code \in {<<0>>, <<1>>}
    /\ (entry = "main" /\ exit_code = <<0>>) =>
        /\ raised = "none"
        /\ rstatus \in {"none", "returned"}
        /\ rstatus = "none" => args.list_modules
        /\ b_result \in {"none", "True"}
        /\ t_result \in {"none", "True"}
        /\ b_result = "none" => b_calls = 0
        /\ t_result = "none" => t_calls = 0
        /\ \A i \in DOMAIN invocations : ~Failed(invocations[i].result)

\* the build failed, the tests that ran afterwards all passed: exit code 1
C14_Witness ==
    /\ entry = "main"
    /\ exit_code = <<1>>
    /\ b_result = "False"
    /\ t_result = "True"
    /\ total_count > 0

-----------------------------------------------------------------------------
(* Unknown compiler *)

\* C15: build_library and build_tests, given a compiler id outside
\* self.compilers, end with the unknown-compiler ValueError, invoke no
\* external process and never return True, whatever the module set.
C15_UnknownCompilerFatal ==
    ~KnownCompiler(args.compiler) =>
        /\ invocations = <<>>
        /\ b_calls > 0 => b_result = "raised" /\ raised = "ValueError: Unknown compiler"
        /\ t_calls > 0 => t_result \in {"none", "raised"}
        /\ (t_calls > 0 /\ pc = "done") =>
               t_result = "raised" /\ raised = "ValueError: Unknown compiler"

-----------------------------------------------------------------------------
(* build_library: sources, invocations, archive *)

\* the compile invocation of the k-th collected source went well
CompiledOk(k) ==
    \E i \in CompileInvocations :
        /\ CompiledSource(i) = b_sources[k]
        /\ ~Failed(invocations[i].result)

\* C16: the collected sources are exactly the declared sources that exist,
\* each missing one being warned about; build_library fails only when an
\* external process fails, never because a file is missing; when it returns
\* True with sources, every collected source was compiled and its object
\* handed to the archiver.
C16_MissingSourceNonFatal ==
    b_calls > 0 =>
        /\ Range(b_sources) = DeclaredSources(resolved_modules) \ b_warned
        /\ b_result \in {"False", "raised"} =>
               \E i \in BuildInvocations : Failed(invocations[i].result)
        /\ (\A i \in BuildInvocations : ~Failed(invocations[i].result)) =>
               b_result \in {"none", "True"}
        /\ (b_result = "True" /\ b_sources # <<>>) =>
            /\ archive = "written"
            /\ \A k \in DOMAIN b_sources :
                /\ CompiledOk(k)
                /\ \E a \in ArchiveInvocations :
                       ObjFile(args.compiler, b_sources[k]) \in Range(invocations[a].cmd.inputs)

\* one declared source is missing, the other is compiled and archived
C16_Witness ==
    /\ b_warned # {}
    /\ b_sources # <<>>
    /\ b_result = "True"
    /\ archive = "written"

\* C17: the archiver is invoked at most once, only with a non-empty list of
\* sources and only after the compiler has been run on every collected
\* source, in order, and exited with 0 each time; its arguments are the
\* object paths of the collected sources, one per source, in order; no
\* compilation follows it.
C17_ArchiveOnceAfterAllCompiled ==
    /\ Cardinality(ArchiveInvocations) <= 1
    /\ \A a \in ArchiveInvocations :
        /\ b_sources # <<>>
        /\ a = Len(b_sources) + 1
        /\ \A k \in 1..Len(b_sources) :
            /\ invocations[k].kind = "compile"
            /\ ~Failed(invocations[k].result)
            /\ CompiledSource(k) = b_sources[k]
        /\ invocations[a].cmd.inputs =
               [k \in 1..Len(b_sources) |-> ObjFile(args.compiler, b_sources[k])]
        /\ \A i \in CompileInvocations : i < a

C17_Witness ==
    /\ args.compiler = "cl"
    /\ Len(b_sources) = 2
    /\ ArchiveInvocations = {3}
    /\ Len(invocations[3].cmd.inputs) = 2
    /\ b_result = "True"

\* C18: every per-source compiler invocation of build_library, for g++,
\* clang++ and cl alike, names one source file: the one whose object it
\* produces; together with the defines of all resolved modules, one include
\* flag and one output-object option.
C18_OneSourcePerInvocation ==
    \A i \in CompileInvocations :
        LET cmd == invocations[i].cmd
        IN  /\ Len(cmd.inputs) = 1
            /\ cmd.defines = DefineFlags(args.compiler, b_defines)
            /\ Range(b_defines) = UNION {Range(modules[m].defines) : m \in resolved_modules}
            /\ cmd.includes = <<IncludeFlag(args.compiler)>>
            /\ Len(cmd.outputs) = 1
            /\ cmd.outputs[1].path = ObjFile(args.compiler, cmd.inputs[1])

\* C19: the collected sources are the existing declared sources of the
\* resolved modules in registry declaration order, none twice, whatever the
\* order the set of modules iterates in; the compilations and the archiver's
\* arguments follow that order.
C19_SourcesInRegistryOrder ==
    b_calls > 0 =>
        /\ b_sources = CollectSources(Sorted(resolved_modules), Range(b_sources))
        /\ \A k, l \in DOMAIN b_sources : b_sources[k] = b_sources[l] => k = l
        /\ \A i \in CompileInvocations :
               CompiledSource(i) = CollectSources(Sorted(resolved_modules), Range(b_sources))[i]

-----------------------------------------------------------------------------
(* resolve_module: the traversal *)

\* C20: at every step of a resolution on a registry without a reachable
\* cycle, every dependency of every member of `resolved` is in `resolved`;
\* no active resolve_module call is for a name already in `resolved` and no
\* two are for the same name, so each name is added once.
C20_AddedAfterDependencies ==
    ~CycleReachable(request \cup {"core"}) =>
        /\ \A m \in resolved : DepSet(m) \subseteq resolved
        /\ \A k \in DOMAIN stack : stack[k].name \notin resolved
        /\ \A k, l \in DOMAIN stack : stack[k].name = stack[l].name => k = l

\* inside the traversal for 'debug': 'core' added, 'debug' and 'time_utils'
\* still waiting for 'result'
C20_Witness ==
    /\ modules = ShippedModules
    /\ request = {"debug"}
    /\ Len(stack) = 3
    /\ stack[1].name = "debug"
    /\ stack[3].name = "result"
    /\ resolved = {"core"}

-----------------------------------------------------------------------------
(* The registry *)

\* C21: in the registry __init__ builds, no module depends on itself
\* directly or through others, every name in a 'depends' list is a
\* registered module, and 'core' is the one module marked required and has
\* no dependencies.
C21_RegistryInvariant ==
    /\ ~CycleReachable(DOMAIN modules)
    /\ \A m \in DOMAIN modules : Range(modules[m].depends) \subseteq DOMAIN modules
    /\ {m \in DOMAIN modules : modules[m].required} = {"core"}
    /\ modules["core"].depends = <<>>

\* the whole registry was resolved: all eleven modules, the longest chain
\* (debug, time_utils, result, core) included
C21_Witness ==
    /\ entry = "main"
    /\ args.full
    /\ Returned
    /\ modules = ShippedModules
    /\ resolved_modules = ShippedNames

-----------------------------------------------------------------------------
(* build_tests: compile, then run *)

\* the compile invocation right before run invocation i, if it is one
CompileBefore(i) == IF i > 1 /\ (i - 1) \in TestCompileInvocations THEN {i - 1} ELSE {}

\* C22: a test executable is run only right after the compile invocation of
\* its own test exited with 0; a test whose compilation fails is not run and
\* not counted; success_count counts exactly the tests that compiled and
\* exited with 0; build_tests returns True exactly when that is every
\* discovered test.
C22_RunOnlyAfterOwnCompile ==
    /\ \A i \in TestRunInvocations :
        /\ CompileBefore(i) # {}
        /\ \A c \in CompileBefore(i) :
            /\ ~Failed(invocations[c].result)
            /\ invocations[i].cmd.inputs =
                   <<TestExe(args.compiler, invocations[c].cmd.inputs[1])>>
            /\ invocations[c].cmd.outputs[1].path = invocations[i].cmd.inputs[1]
    /\ \A k \in DOMAIN test_files :
           (\E c \in CompilesOf(k) : Failed(invocations[c].result)) =>
               RunsOf(k) = {} /\ k \notin PassedTests
    /\ t_calls > 0 => success_count = Cardinality(PassedTests)
    /\ TestsReturned => (t_result = "True" <=> PassedTests = DOMAIN test_files)

\* the first test did not compile and was not run, the second compiled, ran
\* and passed: one of two, False
C22_Witness ==
    /\ TestsReturned
    /\ Len(test_files) = 2
    /\ \E c \in CompilesOf(1) : invocations[c].result.returncode # 0
    /\ RunsOf(1) = {}
    /\ PassedTests = {2}
    /\ t_result = "False"

\* C23: the set main hands to build_tests is the resolved set with
\* 'test_framework' added; every dependency of every member is a member and
\* 'core' is a member.
C23_TestModulesClosed ==
    (entry = "main" /\ t_calls > 0) =>
        /\ test_modules = resolved_modules \cup {"test_framework"}
        /\ \A m \in test_modules : DepSet(m) \subseteq test_modules
        /\ "core" \in test_modules
        /\ test_modules \subseteq DOMAIN modules

\* test_framework was not requested and not resolved, yet is handed over
C23_Witness ==
    /\ entry = "main"
    /\ t_calls = 1
    /\ "test_framework" \notin resolved_modules
    /\ Cardinality(resolved_modules) >= 2
    /\ "test_framework" \in test_modules

C24_WitnessTestOnly ==
    /\ entry = "main"
    /\ pc = "done"
    /\ args.test_only
    /\ b_calls = 0
    /\ t_result = "False"
    /\ exit_code = <<1>>

\* C25: when build_tests finds no test file it returns True, no compiler
\* and no executable having been run; main then returns 0 unless the build
\* phase failed.
C25_NoTestsIsSuccess ==
    (t_calls > 0 /\ test_files = <<>>) =>
        /\ t_result = "True"
        /\ TestCompileInvocations = {}
        /\ TestRunInvocations = {}
        /\ total_count = 0
        /\ entry = "main" =>
            /\ pc \in {"after_tests", "done"}
            /\ success <=> b_result \in {"none", "True"}
            /\ pc = "done" => (exit_code = <<0>> <=> b_result \in {"none", "True"})

\* the build succeeded, no test file exists, exit code 0
C25_Witness ==
    /\ entry = "main"
    /\ pc = "done"
    /\ b_result = "True"
    /\ archive = "written"
    /\ t_calls = 1
    /\ test_files = <<>>
    /\ exit_code = <<0>>

====
